---- MODULE Spec2Model ----
(***************************************************************************)
(* Model of scripts/transform_schema.py: the schema flattening pipeline.   *)
(* Python dicts are TLA+ functions (DOMAIN = the keys, in a fixed key      *)
(* order where the code iterates), Python None is the string "None", and   *)
(* every loop of the code advances one iteration per action, so that a     *)
(* walk that never ends is a behaviour that never leaves its loop.         *)
(***************************************************************************)
EXTENDS Integers, Sequences, FiniteSets, TLC

VARIABLES
    classes,            \* expanded['classes']: class name -> class_def
    classOrder,         \* the key order of expanded['classes'] (dict order)
    slots,              \* expanded['slots']: slot name -> slot_def
    enums,              \* expanded['enums']: enum name -> enum_def
    types,              \* expanded['types']: type name -> type_def
    prefixes,           \* expanded['prefixes']: prefix -> prefix_def
    pc,                 \* position in transform_schema and its callees
    ci,                 \* index into the dict being iterated by the current loop
    todo,               \* keys left in the inner loop (attributes / slot_usage)
    current,            \* get_defining_class: current
    parent,             \* get_defining_class: parent; transform_slots: parent_name
    passes,             \* get_defining_class: passes through the while body so
                        \* far in the running walk, counted modulo 2
    base_attr,          \* transform_slots: base_attr of the running walk
    attributes,         \* transform_classes: attributes built for the class so far
    processed_classes,  \* transform_classes: processed
    processed,          \* transform_slots: processed
    processed_enums,    \* transform_enums: processed
    processed_types,    \* transform_types: processed
    warnings,           \* stderr lines of transform_slots: <<class_name, slot_name>>
    invalid_prefixes,   \* global invalid_prefixes
    validated_prefixes, \* global validated_prefixes: prefix -> verdict
    checks,             \* validate_url calls of the run, in call order: [prefix, url]
    calls,              \* expand_uri calls of the run: [uri, result, checked]
    net,                \* the network layer, as far as asked: url -> verdict
    output_file,        \* the file at output_path: [state, doc]
    report,             \* the end-of-run report printed by transform_schema
    result,             \* the value returned by transform_schema, None while running
    fault,              \* what makes the run raise, if anything ("none" if nothing)
    run,                \* 1 in the first call of transform_schema, 2 in a second one
    rerun,              \* how the second call differs from the first
    first               \* what the first call ended with, once a second is made

vars == <<classes, classOrder, slots, enums, types, prefixes, pc, ci, todo,
          current, parent, passes, base_attr, attributes, processed_classes, processed,
          processed_enums, processed_types, warnings, invalid_prefixes,
          validated_prefixes, checks, calls, net, output_file, report, result,
          fault, run, rerun, first>>

inputVars == <<classes, classOrder, slots, enums, types, prefixes>>
outVars == <<processed_classes, processed, processed_enums, processed_types>>
uriVars == <<invalid_prefixes, validated_prefixes, checks, calls, net>>
runVars == <<output_file, report, result, fault, run, rerun, first>>

-----------------------------------------------------------------------------
(* Bounds of the explored inputs.                                          *)

NumClasses == 3

\* the number of classes of the documents that are visited in two orders
NumOrderClasses == 4

(* Python values.                                                          *)

None == "None"
EmptyDict == [k \in {} |-> None]

\* d.get(k): the value under k, None when the key is absent
Get(d, k) == IF k \in DOMAIN d THEN d[k] ELSE None

\* d.get(k) where the values are dicts: None and {} are both falsy and are
\* never told apart by the code, so an absent key reads as the empty dict
GetDict(d, k) == IF k \in DOMAIN d THEN d[k] ELSE EmptyDict

\* bool(d) of a dict
TruthyDict(d) == DOMAIN d # {}

\* bool(s) of a string or None
TruthyStr(s) == s # None /\ s # ""

\* {k: v} when cond, else {}
Opt(cond, k, v) == IF cond THEN (k :> v) ELSE EmptyDict

\* d[k] = v on a dict
Put(d, k, v) == (k :> v) @@ d

\* the keys of d in the order `order` lists them
RECURSIVE KeysInOrder(_, _)
KeysInOrder(d, order) ==
    IF order = <<>> THEN <<>>
    ELSE IF Head(order) \in DOMAIN d
         THEN <<Head(order)>> \o KeysInOrder(d, Tail(order))
         ELSE KeysInOrder(d, Tail(order))

-----------------------------------------------------------------------------
(* The names the explored schemas are built from.                          *)

ClassNames == <<"C1", "C2", "C3", "C4", "C5">>
Classes == {ClassNames[i] : i \in 1..NumClasses}
MissingClass == "Cx"                 \* a parent name with no class record
AttrOrder == <<"a", "b", "a-b">>     \* key order of attributes and slot_usage
SlotOrder == <<"a", "b", "s", "a-C1">> \* key order of expanded['slots']
EnumOrder == <<"E1", "E2">>          \* key order of expanded['enums']
TypeOrder == <<"string", "T1", "T2">> \* key order of expanded['types']

-----------------------------------------------------------------------------
(* expand_uri. A URI is a sequence of tokens, ":" being the separator; an  *)
(* absent or empty URI is <<>>. The Optional[str] result is <<>> for None  *)
(* and <<url>> for a URL.                                                  *)

HasColon(uri) == \E i \in 1..Len(uri) : uri[i] = ":"

FirstColon(uri) ==
    CHOOSE i \in 1..Len(uri) : uri[i] = ":" /\ \A j \in 1..(i - 1) : uri[j] # ":"

\* a split at the last separator instead of the first
SplitCodeLast(uri) ==
    LET last == CHOOSE i \in 1..Len(uri) :
                   uri[i] = ":" /\ \A j \in (i + 1)..Len(uri) : uri[j] # ":"
    IN  SubSeq(uri, last + 1, Len(uri))

\* uri.split(':', 1)
SplitPrefix(uri) == SubSeq(uri, 1, FirstColon(uri) - 1)
SplitCode(uri) == SubSeq(uri, FirstColon(uri) + 1, Len(uri))

\* expand_uri checking again a prefix whose cached verdict is False
ExpandUriRecheck(uri, pfx, validate, inv, val, verdict) ==
    IF uri = <<>> \/ ~HasColon(uri)
    THEN [result |-> <<>>, invalid |-> inv, validated |-> val, checked |-> <<>>]
    ELSE LET prefix == SplitPrefix(uri)
             known == prefix \in DOMAIN pfx /\ TruthyDict(pfx[prefix])
                      /\ "prefix_reference" \in DOMAIN pfx[prefix]
             expanded_url == pfx[prefix]["prefix_reference"] \o SplitCode(uri)
         IN  IF ~known
             THEN [result |-> <<>>, invalid |-> inv \cup {prefix},
                   validated |-> val, checked |-> <<>>]
             ELSE IF validate /\ (prefix \notin DOMAIN val \/ ~val[prefix])
             THEN [result |-> <<expanded_url>>, invalid |-> inv,
                   validated |-> Put(val, prefix, verdict),
                   checked |-> <<[prefix |-> prefix, url |-> expanded_url]>>]
             ELSE [result |-> <<expanded_url>>, invalid |-> inv,
                   validated |-> val, checked |-> <<>>]

\* expand_uri(uri, prefixes, validate), run with the globals inv and val; verdict
\* is what validate_url answers if it is called. checked lists the call of
\* validate_url, if one is made: the URL it is given, and the prefix it is for.
ExpandUri(uri, pfx, validate, inv, val, verdict) ==
    IF uri = <<>> \/ ~HasColon(uri)
    THEN [result |-> <<>>, invalid |-> inv, validated |-> val, checked |-> <<>>]
    ELSE LET prefix == SplitPrefix(uri)
             code == SplitCode(uri)
         IN  IF prefix \notin DOMAIN pfx
             THEN [result |-> <<>>, invalid |-> inv \cup {prefix},
                   validated |-> val, checked |-> <<>>]
             ELSE IF ~TruthyDict(pfx[prefix])
                     \/ "prefix_reference" \notin DOMAIN pfx[prefix]
             THEN [result |-> <<>>, invalid |-> inv \cup {prefix},
                   validated |-> val, checked |-> <<>>]
             ELSE LET base_url == pfx[prefix]["prefix_reference"]
                      expanded_url == base_url \o code
                  IN  IF validate /\ prefix \notin DOMAIN val
                      THEN [result |-> <<expanded_url>>, invalid |-> inv,
                            validated |-> Put(val, prefix, verdict),
                            checked |-> <<[prefix |-> prefix,
                                           url |-> expanded_url]>>]
                      ELSE [result |-> <<expanded_url>>, invalid |-> inv,
                            validated |-> val, checked |-> <<>>]

\* validate_url(url), lines 37-54: what the call made for uri, if one is made,
\* can answer. True for a status 200-399; False for any other status, a timeout
\* or any exception. The network layer answers a URL it was asked before as it
\* did then, and either way for a URL it is asked for the first time.
Answers(uri) ==
    LET r == ExpandUri(uri, prefixes, TRUE, invalid_prefixes, validated_prefixes,
                       TRUE)
    IN  IF r.checked = <<>> THEN {TRUE}
        ELSE IF r.checked[1].url \in DOMAIN net THEN {net[r.checked[1].url]}
        ELSE BOOLEAN

\* one expand_uri(uri, prefixes, validate=True) call made by the pipeline: the
\* globals after it, and the call appended to the log
DoExpand(uri, verdict) ==
    LET r == ExpandUri(uri, prefixes, TRUE, invalid_prefixes, validated_prefixes,
                       verdict)
    IN  /\ invalid_prefixes' = r.invalid
        /\ validated_prefixes' = r.validated
        /\ checks' = checks \o r.checked
        /\ net' = IF r.checked = <<>> THEN net
                  ELSE Put(net, r.checked[1].url, verdict)
        /\ calls' = Append(calls, [uri |-> uri, result |-> r.result,
                                   checked |-> r.checked])

\* a URL field written only when the check of its URL succeeded
UrlFieldIfReachable(key, uri, verdict) ==
    LET r == ExpandUri(uri, prefixes, TRUE, invalid_prefixes, validated_prefixes,
                       verdict)
    IN  Opt(r.result # <<>> /\ r.result # << <<>> >> /\ (r.checked = <<>> \/ verdict),
            key, r.result[1])

\* `if expanded_url: target[key] = expanded_url`
UrlField(key, uri, verdict) ==
    LET r == ExpandUri(uri, prefixes, TRUE, invalid_prefixes, validated_prefixes,
                       verdict)
    IN  Opt(r.result # <<>> /\ r.result # << <<>> >>, key, r.result[1])

-----------------------------------------------------------------------------
(* build_class_hierarchy and get_defining_class.                           *)

build_class_hierarchy(cls) == [c \in DOMAIN cls |-> cls[c].is_a]

hierarchy == build_class_hierarchy(classes)

\* the loop variables of `for class_name, class_def in ....items()` and of the
\* inner loops over a class's attributes / slot_usage
class_name == classOrder[ci]
class_def == classes[class_name]
attr_name == Head(todo)

\* get_defining_class, lines 129-134: entry, up to the loop or the early return
GDCall ==
    /\ pc = "tc_attr"
    /\ todo # <<>>
    /\ current' = class_name
    /\ parent' = Get(hierarchy, class_name)
    /\ pc' = IF Get(hierarchy, class_name) = None THEN "gd_ret" ELSE "gd_loop"
    /\ passes' = 0
    /\ UNCHANGED <<inputVars, runVars, outVars, uriVars, ci, todo, base_attr, attributes,
                   warnings>>

\* a walk that climbs whatever the parent holds
InParentAttrsAny(p, a) == TRUE

\* the parent's merged attribute set contains the attribute (line 144)
InParentAttrs(p, a) == a \in DOMAIN classes[p].attributes

\* get_defining_class, lines 138-150: one test of the while condition and, when
\* it holds, one pass through the body
GDLoop ==
    /\ pc = "gd_loop"
    /\ IF parent = None
       THEN pc' = "gd_ret" /\ passes' = 0 /\ UNCHANGED <<current, parent>>
       ELSE IF parent \notin DOMAIN classes
       THEN pc' = "gd_ret" /\ passes' = 0 /\ UNCHANGED <<current, parent>>
       ELSE IF InParentAttrs(parent, attr_name)
       THEN /\ current' = parent
            /\ parent' = Get(hierarchy, parent)
            /\ passes' = (passes + 1) % 2
            /\ pc' = "gd_loop"
       ELSE pc' = "gd_ret" /\ passes' = 0 /\ UNCHANGED <<current, parent>>
    /\ UNCHANGED <<inputVars, runVars, outVars, uriVars, ci, todo, base_attr, attributes,
                   warnings>>

\* the nearest parent returned instead of the last class of the walk
inherited_from_nearest ==
    IF current # class_name THEN classes[class_name].is_a ELSE None

\* get_defining_class, lines 152-156: the value returned
inherited_from == IF current # class_name THEN current ELSE None

\* find_slot_usage(class_name, attr_name, classes)
find_slot_usage(c, a) ==
    IF c \notin DOMAIN classes
    THEN EmptyDict
    ELSE GetDict(classes[c].slot_usage, a)

\* transform_classes, lines 196-202: the slot id of an attribute
SlotIdOf(c, a) ==
    IF TruthyDict(find_slot_usage(c, a)) THEN a \o "-" \o c ELSE a

\* transform_classes, lines 193-223: the processed attribute, once
\* get_defining_class has returned
processed_attr(c, a, inh) ==
    LET attr_def == classes[c].attributes[a]
    IN  [slotId |-> SlotIdOf(c, a),
         range |-> Get(attr_def, "range"),
         inline |-> IF a \notin DOMAIN slots THEN "True" ELSE "False"]
        @@ Opt(Get(attr_def, "required") # None, "required", Get(attr_def, "required"))
        @@ Opt(Get(attr_def, "multivalued") # None, "multivalued",
               Get(attr_def, "multivalued"))
        @@ Opt(inh # None, "inherited_from", inh)

TCAttr ==
    /\ pc = "gd_ret"
    /\ attributes' = Put(attributes, attr_name,
                         processed_attr(class_name, attr_name, inherited_from))
    /\ todo' = Tail(todo)
    /\ pc' = "tc_attr"
    /\ UNCHANGED <<inputVars, passes, runVars, outVars, uriVars, ci, current, parent, base_attr,
                   warnings>>

\* transform_classes, line 184-187: the next class of the loop, or the end of it
TCClass ==
    /\ pc = "tc_class"
    /\ IF ci <= Len(classOrder)
       THEN /\ todo' = KeysInOrder(class_def.attributes, AttrOrder)
            /\ attributes' = EmptyDict
            /\ pc' = "tc_attr"
       ELSE /\ pc' = "ts_base"
            /\ todo' = KeysInOrder(slots, SlotOrder)
            /\ UNCHANGED attributes
    /\ UNCHANGED <<inputVars, passes, runVars, outVars, uriVars, ci, current, parent, base_attr,
                   warnings>>

\* transform_classes, lines 225-244: the attribute loop is over; build the
\* processed class, expanding class_uri
TCFinish ==
    /\ pc = "tc_attr"
    /\ todo = <<>>
    /\ \E verdict \in Answers(class_def.class_uri) :
          /\ processed_classes' =
                Put(processed_classes, class_name,
                    [id |-> class_name, parent |-> class_def.is_a,
                     attributes |-> attributes]
                    @@ Opt(TruthyStr(class_def.description), "description",
                           class_def.description)
                    @@ (IF class_def.class_uri # <<>>
                        THEN UrlField("class_url", class_def.class_uri, verdict)
                        ELSE EmptyDict))
          /\ IF class_def.class_uri # <<>>
             THEN DoExpand(class_def.class_uri, verdict)
             ELSE UNCHANGED uriVars
    /\ ci' = ci + 1
    /\ pc' = "tc_class"
    /\ UNCHANGED <<inputVars, passes, runVars, processed, processed_enums, processed_types, todo,
                   current, parent, base_attr, attributes, warnings>>

-----------------------------------------------------------------------------
(* The work list of transform_enums, entered when transform_slots returns. *)

PVOrder == <<"p1", "p2">>            \* key order of permissible_values

RECURSIVE Flatten(_)
Flatten(ss) == IF ss = <<>> THEN <<>> ELSE Head(ss) \o Flatten(Tail(ss))

\* the reachable_from source nodes expanded before the permissible values
EnumItemsNodesFirst(e) ==
    LET enum_def == enums[e]
        pvs == KeysInOrder(enum_def.permissible_values, PVOrder)
    IN  <<[kind |-> "enum", name |-> e, key |-> None, uri |-> <<>>]>>
        \o [i \in 1..Len(enum_def.source_nodes) |->
              [kind |-> "source_nodes_urls", name |-> e, key |-> None,
               uri |-> enum_def.source_nodes[i]]]
        \o [i \in 1..Len(pvs) |->
              [kind |-> "meaning", name |-> e, key |-> pvs[i],
               uri |-> enum_def.permissible_values[pvs[i]]]]
        \o [i \in 1..Len(enum_def.relationship_types) |->
              [kind |-> "relationship_types_urls", name |-> e, key |-> None,
               uri |-> enum_def.relationship_types[i]]]

\* lines 371-444: the steps of transform_enums for one enum, in order
EnumItems(e) ==
    LET enum_def == enums[e]
        pvs == KeysInOrder(enum_def.permissible_values, PVOrder)
    IN  <<[kind |-> "enum", name |-> e, key |-> None, uri |-> <<>>]>>
        \o [i \in 1..Len(pvs) |->
              [kind |-> "meaning", name |-> e, key |-> pvs[i],
               uri |-> enum_def.permissible_values[pvs[i]]]]
        \o [i \in 1..Len(enum_def.source_nodes) |->
              [kind |-> "source_nodes_urls", name |-> e, key |-> None,
               uri |-> enum_def.source_nodes[i]]]
        \o [i \in 1..Len(enum_def.relationship_types) |->
              [kind |-> "relationship_types_urls", name |-> e, key |-> None,
               uri |-> enum_def.relationship_types[i]]]

EnumWork ==
    LET names == KeysInOrder(enums, EnumOrder)
    IN  Flatten([i \in 1..Len(names) |-> EnumItems(names[i])])

-----------------------------------------------------------------------------
(* transform_slots.                                                        *)

\* lines 263-275 / 303-316 / 351-361: a slot record made from a definition;
\* description is copied when truthy, required and multivalued when not None
SlotRecord(id, name, def) ==
    [id |-> id, name |-> name, range |-> Get(def, "range")]
    @@ Opt(TruthyStr(Get(def, "description")), "description", Get(def, "description"))
    @@ Opt(Get(def, "required") # None, "required", Get(def, "required"))
    @@ Opt(Get(def, "multivalued") # None, "multivalued", Get(def, "multivalued"))

\* line 302: the identity of an override instance
instance_id(slot_name, c) == slot_name \o "-" \o c

\* lines 303-316: the override slot instance
override_slot(slot_name, c, merged_attr) ==
    ("overrides" :> slot_name)
    @@ SlotRecord(instance_id(slot_name, c), slot_name, merged_attr)

\* lines 262-283: one pass of the loop over the global slots
TSBase ==
    /\ pc = "ts_base"
    /\ todo # <<>>
    /\ LET slot_name == Head(todo)
           slot_def == slots[slot_name]
           slot_uri == slot_def["slot_uri"]
       IN  \E verdict \in Answers(slot_uri) :
              /\ processed' =
                    Put(processed, slot_name,
                        SlotRecord(slot_name, slot_name, slot_def)
                        @@ (IF slot_uri # <<>>
                            THEN UrlField("slot_url", slot_uri, verdict)
                            ELSE EmptyDict))
              /\ IF slot_uri # <<>>
                 THEN DoExpand(slot_uri, verdict)
                 ELSE UNCHANGED uriVars
    /\ todo' = Tail(todo)
    /\ UNCHANGED <<inputVars, passes, runVars, processed_classes, processed_enums, processed_types,
                   pc, ci, current, parent, base_attr, attributes, warnings>>

\* line 286: the loop over the global slots is over; enter the loop over classes
TSBaseDone ==
    /\ pc = "ts_base"
    /\ todo = <<>>
    /\ ci' = 1
    /\ pc' = "ts_class"
    /\ UNCHANGED <<inputVars, passes, runVars, outVars, uriVars, todo, current, parent, base_attr,
                   attributes, warnings>>

\* lines 286-289: the next class of the loop, or the end of transform_slots
TSClass ==
    /\ pc = "ts_class"
    /\ IF ci <= Len(classOrder)
       THEN /\ todo' = KeysInOrder(class_def.slot_usage, AttrOrder)
            /\ pc' = "ts_usage"
       ELSE /\ todo' = EnumWork
            /\ pc' = "enums"
    /\ UNCHANGED <<inputVars, passes, runVars, outVars, uriVars, ci, current, parent, base_attr,
                   attributes, warnings>>

\* lines 289-325: one slot_usage entry, up to the walk for its base slot
TSUsage ==
    /\ pc = "ts_usage"
    /\ todo # <<>>
    /\ LET slot_name == Head(todo)
           merged_attr == GetDict(class_def.attributes, slot_name)
           with_override == Put(processed, instance_id(slot_name, class_name),
                                override_slot(slot_name, class_name, merged_attr))
       IN  IF ~TruthyDict(merged_attr)
           THEN /\ warnings' = warnings \cup {<<class_name, slot_name>>}
                /\ todo' = Tail(todo)
                /\ UNCHANGED <<processed, parent, base_attr, pc>>
           ELSE /\ processed' = with_override
                /\ IF slot_name \notin DOMAIN with_override
                   THEN /\ parent' = class_def.is_a
                        /\ base_attr' = EmptyDict
                        /\ pc' = "ts_walk"
                        /\ UNCHANGED todo
                   ELSE /\ todo' = Tail(todo)
                        /\ UNCHANGED <<parent, base_attr, pc>>
                /\ UNCHANGED warnings
    /\ UNCHANGED <<inputVars, passes, runVars, processed_classes, processed_enums, processed_types,
                   uriVars, ci, current, attributes>>

\* a base slot made only for the first override of the name
SynthesizeForFirstOnly(table, slot_name, found) ==
    IF TruthyDict(found)
       /\ Cardinality({k \in DOMAIN table : Get(table[k], "overrides") = slot_name}) = 1
    THEN Put(table, slot_name, SlotRecord(slot_name, slot_name, found))
    ELSE table

\* lines 349-362, after the walk: the base slot made from the definition found
Synthesize(table, slot_name, found) ==
    IF TruthyDict(found)
    THEN Put(table, slot_name, SlotRecord(slot_name, slot_name, found))
    ELSE table

\* lines 328-362: one test of the while condition and, when it holds, one pass
\* through the body; when the loop is left, the base slot is made
TSWalk ==
    /\ pc = "ts_walk"
    /\ LET slot_name == Head(todo)
           parent_class == classes[parent]
           leave(found) ==
               /\ processed' = Synthesize(processed, slot_name, found)
               /\ todo' = Tail(todo)
               /\ pc' = "ts_usage"
               /\ base_attr' = found
               /\ UNCHANGED parent
       IN  IF ~TruthyStr(parent)
           THEN leave(base_attr)
           ELSE IF parent \notin DOMAIN classes
           THEN leave(base_attr)
           ELSE IF slot_name \in DOMAIN parent_class.attributes
           THEN IF slot_name \in DOMAIN parent_class.slot_usage
                THEN /\ base_attr' = parent_class.attributes[slot_name]
                     /\ parent' = parent_class.is_a
                     /\ UNCHANGED <<processed, todo, pc>>
                ELSE leave(parent_class.attributes[slot_name])
           ELSE /\ parent' = parent_class.is_a
                /\ UNCHANGED <<processed, todo, pc, base_attr>>
    /\ UNCHANGED <<inputVars, passes, runVars, processed_classes, processed_enums, processed_types,
                   uriVars, ci, current, attributes, warnings>>

\* line 289: the slot_usage of the class is exhausted
TSUsageDone ==
    /\ pc = "ts_usage"
    /\ todo = <<>>
    /\ ci' = ci + 1
    /\ pc' = "ts_class"
    /\ UNCHANGED <<inputVars, passes, runVars, outVars, uriVars, todo, current, parent, base_attr,
                   attributes, warnings>>

-----------------------------------------------------------------------------
(* transform_enums. The nested loops (enums, then each enum's permissible  *)
(* values, source nodes and relationship types) are run as one list of     *)
(* work items, in the order the code reaches them.                         *)

\* the list under key k of a processed record, [] when the key is not set
ListOf(rec, k) == IF k \in DOMAIN rec THEN rec[k] ELSE <<>>

\* lines 371-444: one work item of transform_enums
TEnum ==
    /\ pc = "enums"
    /\ todo # <<>>
    /\ LET item == Head(todo)
           old == GetDict(processed_enums, item.name)
       IN  \E verdict \in Answers(item.uri) :
              LET r == ExpandUri(item.uri, prefixes, TRUE, invalid_prefixes,
                                 validated_prefixes, verdict)
                  ok == r.result # <<>> /\ r.result # << <<>> >>
              IN  /\ IF item.kind = "enum"
                     THEN processed_enums' =
                             Put(processed_enums, item.name,
                                 [id |-> item.name, permissible_values |-> EmptyDict])
                     ELSE IF item.kind = "meaning"
                     THEN processed_enums' =
                             Put(processed_enums, item.name,
                                 Put(old, "permissible_values",
                                     Put(old.permissible_values, item.key,
                                         Opt(item.uri # <<>>, "meaning", item.uri)
                                         @@ Opt(item.uri # <<>> /\ ok, "meaning_url",
                                                r.result[1]))))
                     ELSE IF ok
                     THEN processed_enums' =
                             Put(processed_enums, item.name,
                                 Put(old, item.kind,
                                     Append(ListOf(old, item.kind), r.result[1])))
                     ELSE UNCHANGED processed_enums
                  /\ IF item.kind = "enum" \/ (item.kind = "meaning" /\ item.uri = <<>>)
                     THEN UNCHANGED uriVars
                     ELSE DoExpand(item.uri, verdict)
    /\ todo' = Tail(todo)
    /\ UNCHANGED <<inputVars, passes, runVars, processed_classes, processed, processed_types, pc,
                   ci, current, parent, base_attr, attributes, warnings>>

-----------------------------------------------------------------------------
(* collect_used_types and transform_types.                                 *)

\* lines 462-464 / 468-470: the ranges of a dict of definitions that are
\* truthy and name a declared type
UsedRanges(defs, expanded_types) ==
    {Get(defs[k], "range") :
        k \in {m \in DOMAIN defs : /\ TruthyStr(Get(defs[m], "range"))
                                   /\ Get(defs[m], "range") \in DOMAIN expanded_types}}

\* the used types collected from the class attributes alone
collect_used_types_classes_only(cls, sl, expanded_types) ==
    UNION {UsedRanges(cls[c].attributes, expanded_types) : c \in DOMAIN cls}

\* lines 456-472: the declared types used as a range by a class attribute or
\* a global slot
collect_used_types(cls, sl, expanded_types) ==
    UNION {UsedRanges(cls[c].attributes, expanded_types) : c \in DOMAIN cls}
    \cup UsedRanges(sl, expanded_types)

used_types == collect_used_types(classes, slots, types)

TypeItems(t) ==
    LET type_def == types[t]
    IN  IF t \notin used_types
        THEN <<>>
        ELSE <<[kind |-> "type", name |-> t, uri |-> <<>>]>>
             \o (IF type_def.uri # <<>>
                 THEN <<[kind |-> "uri_url", name |-> t, uri |-> type_def.uri]>>
                 ELSE <<>>)
             \o [i \in 1..Len(type_def.exact_mappings) |->
                   [kind |-> "exact_mappings_urls", name |-> t,
                    uri |-> type_def.exact_mappings[i]]]

TypeWork ==
    LET names == KeysInOrder(types, TypeOrder)
    IN  Flatten([i \in 1..Len(names) |-> TypeItems(names[i])])

\* lines 565-572: transform_enums has returned; collect the used types and
\* enter transform_types
TEnumDone ==
    /\ pc = "enums"
    /\ todo = <<>>
    /\ todo' = TypeWork
    /\ pc' = "types"
    /\ UNCHANGED <<inputVars, passes, runVars, outVars, uriVars, ci, current, parent, base_attr,
                   attributes, warnings>>

\* lines 479-513: one work item of transform_types
TType ==
    /\ pc = "types"
    /\ todo # <<>>
    /\ LET item == Head(todo)
           old == GetDict(processed_types, item.name)
       IN  \E verdict \in Answers(item.uri) :
              LET r == ExpandUri(item.uri, prefixes, TRUE, invalid_prefixes,
                                 validated_prefixes, verdict)
                  ok == r.result # <<>> /\ r.result # << <<>> >>
              IN  /\ IF item.kind = "type"
                     THEN processed_types' =
                             Put(processed_types, item.name,
                                 [id |-> item.name, name |-> item.name]
                                 @@ Opt(types[item.name].uri # <<>>, "uri",
                                        types[item.name].uri))
                     ELSE IF ~ok
                     THEN UNCHANGED processed_types
                     ELSE IF item.kind = "uri_url"
                     THEN processed_types' =
                             Put(processed_types, item.name,
                                 Put(old, "uri_url", r.result[1]))
                     ELSE processed_types' =
                             Put(processed_types, item.name,
                                 Put(old, item.kind,
                                     Append(ListOf(old, item.kind), r.result[1])))
                  /\ IF item.kind = "type"
                     THEN UNCHANGED uriVars
                     ELSE DoExpand(item.uri, verdict)
    /\ todo' = Tail(todo)
    /\ UNCHANGED <<inputVars, passes, runVars, processed_classes, processed, processed_enums, pc,
                   ci, current, parent, base_attr, attributes, warnings>>

\* lines 574-585: transform_types has returned; the processed schema is assembled
TTypeDone ==
    /\ pc = "types"
    /\ todo = <<>>
    /\ pc' = "assembled"
    /\ UNCHANGED <<inputVars, passes, runVars, outVars, uriVars, todo, ci, current, parent,
                   base_attr, attributes, warnings>>

\* a call that keeps the trackers of the call before it
KeepTrackers(inv, val) == [invalid |-> inv, validated |-> val]

\* lines 527-529: the trackers as the call starts with them
ResetTrackers(inv, val) == [invalid |-> {}, validated |-> EmptyDict]

\* transform_schema, lines 525-553: reset the trackers, load the document,
\* build the hierarchy and enter transform_classes. The local tables of the
\* stage functions (lines 182, 259, 369, 477) start empty in every call, and
\* checks and calls list what this call does.
Reset ==
    /\ pc = "start"
    /\ invalid_prefixes' = ResetTrackers(invalid_prefixes, validated_prefixes).invalid
    /\ validated_prefixes' = ResetTrackers(invalid_prefixes, validated_prefixes).validated
    /\ checks' = <<>>
    /\ calls' = <<>>
    /\ processed_classes' = EmptyDict
    /\ processed' = EmptyDict
    /\ processed_enums' = EmptyDict
    /\ processed_types' = EmptyDict
    /\ result' = None
    /\ ci' = 1
    /\ pc' = "tc_class"
    /\ UNCHANGED <<inputVars, passes, net, output_file, report, fault, run, rerun, first,
                   todo, current, parent, base_attr, attributes, warnings>>

-----------------------------------------------------------------------------
(* transform_schema: writing the artifact, the report, the failure paths,  *)
(* and a caller that calls transform_schema again.                         *)

\* lines 575-581: the processed schema (the pass-through of 'variables', lines
\* 584-585, copies a block no stage reads and is left out)
Artifact ==
    [prefixes |-> prefixes, classes |-> processed_classes, slots |-> processed,
     enums |-> processed_enums, types |-> processed_types]

\* lines 589-590: open(output_path, 'w') creates the file or empties the one
\* that is there; until json.dump has returned the file holds a part of the
\* document at most
WriteOpen ==
    /\ pc = "assembled"
    /\ output_file' = [state |-> "partial"]
    /\ pc' = "dumping"
    /\ UNCHANGED <<inputVars, passes, outVars, uriVars, report, result, fault, run, rerun,
                   first, ci, todo, current, parent, base_attr, attributes,
                   warnings>>

\* line 591: json.dump has written the whole document
WriteDump ==
    /\ pc = "dumping"
    /\ output_file' = [state |-> "written", doc |-> Artifact]
    /\ pc' = "report"
    /\ UNCHANGED <<inputVars, passes, outVars, uriVars, report, result, fault, run, rerun,
                   first, ci, todo, current, parent, base_attr, attributes,
                   warnings>>

\* lines 598-619: what the end-of-run report prints: the number of prefixes
\* validated, the prefixes whose validation failed, the invalid prefixes
EndOfRunReport(inv, val) ==
    [validated |-> Cardinality({p \in DOMAIN val : val[p]}),
     failed |-> {p \in DOMAIN val : ~val[p]},
     invalid |-> inv]

\* lines 598-621: print the report and return True
Report ==
    /\ pc = "report"
    /\ report' = EndOfRunReport(invalid_prefixes, validated_prefixes)
    /\ result' = "True"
    /\ pc' = "done"
    /\ UNCHANGED <<inputVars, passes, outVars, uriVars, output_file, fault, run, rerun,
                   first, ci, todo, current, parent, base_attr, attributes,
                   warnings>>

\* the stage of transform_schema the program is in
StageAt(at) ==
    IF at = "start" THEN "load"
    ELSE IF at \in {"tc_class", "tc_attr", "gd_loop", "gd_ret"} THEN "classes"
    ELSE IF at \in {"ts_base", "ts_class", "ts_usage", "ts_walk"} THEN "slots"
    ELSE IF at = "enums" THEN "enums"
    ELSE IF at = "types" THEN "types"
    ELSE IF at = "assembled" THEN "open"
    ELSE IF at = "dumping" THEN "dump"
    ELSE "none"

\* lines 623-633: an exception raised in the stage named by fault (a missing
\* or unparsable input file, a definition that is no mapping, an OSError of
\* open or of a write of json.dump) is caught and the call returns False
Raise ==
    /\ fault # "none"
    /\ StageAt(pc) = fault
    /\ result' = "False"
    /\ pc' = "failed"
    /\ UNCHANGED <<inputVars, passes, outVars, uriVars, output_file, report, fault, run,
                   rerun, first, ci, todo, current, parent, base_attr, attributes,
                   warnings>>

\* what a call ended with
Outcome ==
    [output_file |-> output_file, result |-> result, report |-> report,
     invalid |-> invalid_prefixes, validated |-> validated_prefixes,
     checks |-> checks, calls |-> calls, table |-> processed]

\* the caller calls transform_schema a second time on the same input, with the
\* network layer of the first call or with another one
SecondRun ==
    /\ pc = "done"
    /\ run = 1
    /\ first' = Outcome
    /\ run' = 2
    /\ pc' = "start"
    /\ \E how \in {"same", "network"} :
          /\ rerun' = how
          /\ net' = IF how = "network" THEN EmptyDict ELSE net
    /\ UNCHANGED <<inputVars, passes, outVars, invalid_prefixes, validated_prefixes,
                   checks, calls, output_file, report, result, fault, ci, todo,
                   current, parent, base_attr, attributes, warnings>>

\* the same classes listed in another order
Reordered(order) ==
    {o \in [1..Len(order) -> {order[i] : i \in 1..Len(order)}] :
        /\ \A i, j \in 1..Len(order) : i # j => o[i] # o[j]
        /\ o # order}

\* the caller runs the pipeline again, up to the end of transform_slots, on a
\* document that lists the same classes in another order
Revisit ==
    /\ pc = "enums"
    /\ run = 1
    /\ first' = Outcome
    /\ run' = 2
    /\ rerun' = "order"
    /\ pc' = "start"
    /\ classOrder' \in Reordered(classOrder)
    /\ UNCHANGED <<classes, slots, enums, types, prefixes, passes, outVars, uriVars,
                   output_file, report, result, fault, ci, todo, current, parent,
                   base_attr, attributes, warnings>>

-----------------------------------------------------------------------------
(* The explored inputs.                                                    *)

ClassIndex(c) == CHOOSE i \in 1..Len(ClassNames) : ClassNames[i] = c

\* the AttributeDef class number i holds for attribute "a": every class holds
\* its own, so that a record built from one names the class it came from
AttrDefs ==
    <<[range |-> "string", description |-> "d1"],
      [range |-> "T1", required |-> "True"],
      [range |-> "E1", description |-> "", multivalued |-> "False"],
      [range |-> "T2", required |-> "False"],
      [range |-> "C1", description |-> "d5"]>>

DefOf(c) == AttrDefs[ClassIndex(c)]
DefB == [range |-> "integer", description |-> "b"]
GlobalDef(n) == [range |-> "string", description |-> "global " \o n, slot_uri |-> <<>>]
FullUsage == [range |-> "E2"]

Shapes == {"absent", "empty", "full"}

Shaped(shape, name, full) ==
    IF shape = "absent" THEN EmptyDict
    ELSE IF shape = "empty" THEN (name :> EmptyDict)
    ELSE (name :> full)

ClassDef(is_a, attrs, usage, uri) ==
    [is_a |-> is_a, attributes |-> attrs, slot_usage |-> usage,
     class_uri |-> uri, description |-> None]

\* k steps up the parent map from c, stopping at a name that is no class
RECURSIVE Up(_, _, _)
Up(par, c, k) ==
    IF k = 0 \/ c \notin DOMAIN par THEN c ELSE Up(par, par[c], k - 1)

\* the parent map is a forest: no class is its own ancestor
Forest(par) == \A c \in DOMAIN par : Up(par, c, Cardinality(DOMAIN par)) \notin DOMAIN par

InitRun ==
    /\ pc = "start"
    /\ ci = 1
    /\ todo = <<>>
    /\ current = None
    /\ parent = None
    /\ passes = 0
    /\ base_attr = EmptyDict
    /\ attributes = EmptyDict
    /\ processed_classes = EmptyDict
    /\ processed = EmptyDict
    /\ processed_enums = EmptyDict
    /\ processed_types = EmptyDict
    /\ warnings = {}
    /\ invalid_prefixes = {}
    /\ validated_prefixes = EmptyDict
    /\ checks = <<>>
    /\ calls = <<>>
    /\ net = EmptyDict
    /\ report = EmptyDict
    /\ result = None
    /\ run = 1
    /\ rerun = "none"
    /\ first = EmptyDict

\* nothing makes the call raise, and there is no file at output_path yet
NoFault ==
    /\ fault = "none"
    /\ output_file = [state |-> "absent"]

NoUris ==
    /\ enums = EmptyDict
    /\ types = EmptyDict
    /\ prefixes = EmptyDict

\* Hierarchies of any shape (cycles, self-parents and parents without a record
\* included); attribute "a" on any set of classes, "b" on the first class or not.
InitHierarchy ==
    /\ InitRun
    /\ NoFault
    /\ NoUris
    /\ slots = EmptyDict
    /\ classOrder = [i \in 1..NumClasses |-> ClassNames[i]]
    /\ \E par \in [Classes -> Classes \cup {None, MissingClass}],
          hasA \in [Classes -> {"absent", "full"}],
          hasB \in {"absent", "full"} :
          classes = [c \in Classes |->
                       ClassDef(par[c],
                                Shaped(hasA[c], "a", DefOf(c))
                                @@ (IF c = ClassNames[1]
                                    THEN Shaped(hasB, "b", DefB) ELSE EmptyDict),
                                EmptyDict, <<>>)]

\* Forests; per class, attribute "a" absent or present with a definition of one
\* of defShapes, and a slot_usage entry for "a" absent or present with an
\* override of one of useShapes; "b" on the first class; "a" a global slot or not.
OverrideDocuments(defShapes, useShapes) ==
    /\ InitRun
    /\ NoFault
    /\ NoUris
    /\ classOrder = [i \in 1..NumClasses |-> ClassNames[i]]
    /\ \E g \in BOOLEAN : slots = IF g THEN ("a" :> GlobalDef("a")) ELSE EmptyDict
    /\ \E par \in [Classes -> Classes \cup {None}],
          defA \in [Classes -> defShapes],
          useA \in [Classes -> useShapes],
          bothB \in BOOLEAN :
          /\ Forest(par)
          /\ classes = [c \in Classes |->
                          ClassDef(par[c],
                                   Shaped(defA[c], "a", DefOf(c))
                                   @@ (IF bothB /\ c = ClassNames[1]
                                       THEN ("b" :> DefB) ELSE EmptyDict),
                                   Shaped(useA[c], "a", FullUsage)
                                   @@ (IF bothB /\ c = ClassNames[1]
                                       THEN ("b" :> FullUsage) ELSE EmptyDict),
                                   <<>>)]

\* attribute definitions may be empty ({}); overrides are not
InitOverrides == OverrideDocuments(Shapes, {"absent", "full"})

\* overrides may be empty ({}); attribute definitions are not
InitUsage == OverrideDocuments({"absent", "full"}, Shapes)

\* Documents whose names hold the character the override identities are joined
\* with: classes "C1" and "b-C1", attributes "a" and "a-b", each held or not and
\* overridden or not by each class, and a global slot "a-C1" or none.
HyphenClasses == {"C1", "b-C1"}
HyphenAttrs == {"a", "a-b"}

InitNames ==
    /\ InitRun
    /\ NoFault
    /\ NoUris
    /\ classOrder = <<"C1", "b-C1">>
    /\ \E g \in BOOLEAN :
          slots = IF g THEN ("a-C1" :> GlobalDef("a-C1")) ELSE EmptyDict
    /\ \E par \in {None, "C1"},
          holds \in [HyphenClasses \X HyphenAttrs -> {"absent", "held", "overridden"}] :
          classes = [c \in HyphenClasses |->
                       ClassDef(IF c = "C1" THEN None ELSE par,
                                [a \in {x \in HyphenAttrs : holds[<<c, x>>] # "absent"} |->
                                   [range |-> "string", description |-> a \o " of " \o c]],
                                [a \in {x \in HyphenAttrs : holds[<<c, x>>] = "overridden"} |->
                                   FullUsage],
                                <<>>)]

\* Forests of NumOrderClasses classes of three shapes (one chain; pairs of a
\* root and a child; all children of the first class); per class, attribute "a"
\* absent, held, or held and overridden; "a" a global slot or not.
OrderClasses == {ClassNames[i] : i \in 1..NumOrderClasses}

ParentShapes ==
    {[c \in OrderClasses |->
        IF ClassIndex(c) = 1 THEN None ELSE ClassNames[ClassIndex(c) - 1]],
     [c \in OrderClasses |->
        IF ClassIndex(c) % 2 = 1 THEN None ELSE ClassNames[ClassIndex(c) - 1]],
     [c \in OrderClasses |->
        IF ClassIndex(c) = 1 THEN None ELSE ClassNames[1]]}

InitOrder ==
    /\ InitRun
    /\ NoFault
    /\ NoUris
    /\ classOrder = [i \in 1..NumOrderClasses |-> ClassNames[i]]
    /\ \E g \in BOOLEAN : slots = IF g THEN ("a" :> GlobalDef("a")) ELSE EmptyDict
    /\ \E par \in ParentShapes,
          holds \in [OrderClasses -> {"absent", "held", "overridden"}] :
          classes = [c \in OrderClasses |->
                       ClassDef(par[c],
                                Shaped(IF holds[c] = "absent" THEN "absent" ELSE "full",
                                       "a", DefOf(c)),
                                Shaped(IF holds[c] = "overridden" THEN "full"
                                       ELSE "absent", "a", FullUsage),
                                <<>>)]

\* The prefix table of the explored documents: two prefixes with a
\* prefix_reference, one whose definition lacks it, one whose definition is empty.
PrefixTable ==
    (<<"ex">> :> [prefix_reference |-> <<"http://x/">>])
    @@ (<<"ob">> :> [prefix_reference |-> <<"http://ob/">>])
    @@ (<<"nb">> :> [prefix_prefix |-> <<"nb">>])
    @@ (<<"em">> :> EmptyDict)

FirstUriPool == {<<"ex", ":", "1">>, <<"zz", ":", "1">>}
SecondUriPool == {<<>>, <<"ob", ":", "1">>}
SlotUriPool == {<<"ex", ":", "2">>, <<"nb", ":", "1">>}
MeaningPool == {<<"ob", ":", "1">>, <<"ex", ":", "1", ":", "2">>, <<"plain">>}
SourceNodesPool == {<<>>, << <<"ex", ":", "2">>, <<"ob", ":", "2">> >>}
TypeUriPool == {<<"em", ":", "1">>, <<":", "1">>}
DeclaredPool == {{}, {"T1", "T2"}, {"string", "T1", "T2"}}

\* Whole documents: a chain of classes, the last one overriding "a"; a global
\* slot, an enum and a set of declared types; URIs drawn from the pools.
Documents(hasPool, declaredPool, lastPool) ==
    /\ InitRun
    /\ prefixes = PrefixTable
    /\ classOrder = [i \in 1..NumClasses |-> ClassNames[i]]
    /\ \E has1 \in hasPool, has2 \in hasPool, last \in lastPool,
          uri1 \in FirstUriPool, uri2 \in SecondUriPool :
          classes = [c \in Classes |->
                       ClassDef(IF c = ClassNames[1] THEN None
                                ELSE ClassNames[ClassIndex(c) - 1],
                                Shaped(IF c = ClassNames[1] THEN has1
                                       ELSE IF c = ClassNames[2] THEN has2
                                       ELSE last,
                                       "a", DefOf(c)),
                                IF c = ClassNames[NumClasses]
                                THEN ("a" :> FullUsage) ELSE EmptyDict,
                                IF c = ClassNames[1] THEN uri1
                                ELSE IF c = ClassNames[2] THEN uri2 ELSE <<>>)]
    /\ \E r \in {"T2", "E1"}, u \in SlotUriPool :
          slots = ("s" :> [range |-> r, description |-> "global s", slot_uri |-> u])
    /\ \E m \in MeaningPool, ns \in SourceNodesPool :
          enums = ("E1" :> [permissible_values |-> ("p1" :> m) @@ ("p2" :> <<>>),
                            source_nodes |-> ns,
                            relationship_types |-> << <<"ex", ":", "1">> >>])
    /\ \E declared \in declaredPool, u \in TypeUriPool :
          types = [t \in declared |->
                     [uri |-> IF t = "string" THEN <<>> ELSE u,
                      exact_mappings |-> IF t = "T1" THEN << <<"ob", ":", "1">> >>
                                         ELSE <<>>]]

InitDocument ==
    /\ Documents({"absent", "full"}, DeclaredPool, {"full"})
    /\ NoFault

\* Documents whose last class may override an attribute it does not hold.
InitReport ==
    /\ Documents({"full"}, {{"string", "T1", "T2"}}, {"absent", "full"})
    /\ NoFault

\* the stages in which a call may raise
Faults == {"load", "classes", "slots", "enums", "types", "open", "dump"}

\* Documents whose processing may raise in one stage, with or without a file
\* of an earlier run at output_path.
InitFaults ==
    /\ Documents({"full"}, {{"string", "T1", "T2"}}, {"full"})
    /\ fault \in Faults
    /\ output_file \in {[state |-> "absent"], [state |-> "stale"]}

NextClasses == Reset \/ TCClass \/ GDCall \/ GDLoop \/ TCAttr \/ TCFinish
NextSlots == TSBase \/ TSBaseDone \/ TSClass \/ TSUsage \/ TSWalk \/ TSUsageDone
NextRest == TEnum \/ TEnumDone \/ TType \/ TTypeDone
NextWrite == WriteOpen \/ WriteDump \/ Report

Next == NextClasses \/ NextSlots \/ NextRest \/ NextWrite \/ SecondRun

\* transform_classes over hierarchies of any shape
SpecHierarchy == InitHierarchy /\ [][NextClasses]_vars

\* the same, every step the program can take being taken in the end
SpecHierarchyFair == SpecHierarchy /\ WF_vars(NextClasses)

\* transform_classes, then transform_slots, over forests
Spec == InitOverrides /\ [][NextClasses \/ NextSlots]_vars

\* the same, over documents whose slot_usage entries may be empty
SpecUsage == InitUsage /\ [][NextClasses \/ NextSlots]_vars

\* transform_schema, called once or twice, on whole documents
SpecDocument == InitDocument /\ [][Next]_vars

\* transform_classes, then transform_slots, over names that hold a hyphen
SpecNames == InitNames /\ [][NextClasses \/ NextSlots]_vars

\* transform_classes and transform_slots, run on the classes in one order and
\* then in another
SpecOrder == InitOrder /\ [][NextClasses \/ NextSlots \/ Revisit]_vars

\* one call of transform_schema, on documents with dangling overrides
SpecReport == InitReport /\ [][NextClasses \/ NextSlots \/ NextRest \/ NextWrite]_vars

\* one call of transform_schema that may raise
SpecFaults ==
    InitFaults /\ [][NextClasses \/ NextSlots \/ NextRest \/ NextWrite \/ Raise]_vars

-----------------------------------------------------------------------------
(* What the input document says, read off it directly.                     *)

IsClass(c) == c \in DOMAIN classes
HoldsAttr(c, a) == IsClass(c) /\ a \in DOMAIN classes[c].attributes
OverridesAttr(c, a) == IsClass(c) /\ a \in DOMAIN classes[c].slot_usage

\* the class k is_a links above c; None once the chain has ended
RECURSIVE AncestorAt(_, _)
AncestorAt(c, k) ==
    IF k = 0 THEN c
    ELSE LET d == AncestorAt(c, k - 1)
         IN  IF IsClass(d) THEN classes[d].is_a ELSE None

ProperAncestors(c) == {AncestorAt(c, k) : k \in 1..NumClasses} \cap DOMAIN classes

\* the walk of get_defining_class has returned for (class_name, attr_name)
Returned == pc = "gd_ret"

\* C1: for every class C and attribute A of C's merged attributes,
\* get_defining_class(C, A) is None or a proper ancestor D of C that holds A and
\* whose parent, if D has one, does not hold A.
C1_DefiningClassHoldsAttr ==
    Returned =>
        \/ inherited_from = None
        \/ /\ inherited_from # class_name
           /\ inherited_from \in ProperAncestors(class_name)
           /\ HoldsAttr(inherited_from, attr_name)
           /\ ~HoldsAttr(classes[inherited_from].is_a, attr_name)

\* the result is an ancestor above the parent, and it has a parent record itself
C1_Witness ==
    /\ Returned
    /\ inherited_from # None
    /\ IsClass(classes[inherited_from].is_a)
    /\ ~HoldsAttr(classes[inherited_from].is_a, attr_name)

\* C2: get_defining_class(C, A) is None exactly when C has no parent, the parent
\* has no class record or the parent does not hold A; otherwise it is the last
\* class of the unbroken chain of parents holding A; it is never C.
C2_DefiningClassIsChainTop ==
    Returned =>
        LET P == classes[class_name].is_a
            local == P = None \/ ~IsClass(P) \/ ~HoldsAttr(P, attr_name)
        IN  /\ inherited_from # class_name
            /\ (inherited_from = None) <=> local
            /\ ~local =>
                 \E k \in 1..NumClasses :
                    /\ \A j \in 1..k : HoldsAttr(AncestorAt(class_name, j), attr_name)
                    /\ ~HoldsAttr(AncestorAt(class_name, k + 1), attr_name)
                    /\ inherited_from = AncestorAt(class_name, k)

\* a chain of two parents holding the attribute, ended by a parent name that
\* has no class record
C2_Witness ==
    /\ Returned
    /\ inherited_from # None
    /\ inherited_from = AncestorAt(class_name, 2)
    /\ classes[inherited_from].is_a = MissingClass

-----------------------------------------------------------------------------
(* Properties of transform_slots and of the slot ids of transform_classes. *)

\* transform_slots has returned
SlotsDone == pc = "enums"

\* the walk for the base slot of (class_name, slot) ends with this step
WalkEnds == pc = "ts_walk" /\ pc' = "ts_usage"

OverrideId(a, c) == a \o "-" \o c

\* the field table holds an override record of a in c
HasOverrideRecord(table, a, c) ==
    /\ OverrideId(a, c) \in DOMAIN table
    /\ "overrides" \in DOMAIN table[OverrideId(a, c)]

\* some ancestor of c holds a and does not itself override it
ResolvableAncestors(c, a) ==
    {d \in ProperAncestors(c) : HoldsAttr(d, a) /\ ~OverridesAttr(d, a)}

\* C3: every override record made for A in C has identity "A-C" and overrides = A,
\* and a base record keyed A is in the field table whenever some ancestor of C
\* that does not itself override A holds A.
C3_OverrideHasBase ==
    SlotsDone =>
        \A c \in DOMAIN classes : \A a \in DOMAIN classes[c].slot_usage :
            HasOverrideRecord(processed, a, c) =>
                /\ processed[OverrideId(a, c)]["id"] = OverrideId(a, c)
                /\ processed[OverrideId(a, c)]["overrides"] = a
                /\ ResolvableAncestors(c, a) # {} => a \in DOMAIN processed

\* C4: when C overrides A, A is no global slot and no ancestor of C both holds A
\* and does not override it, the walk for (A, C) makes no base record: the table
\* then holds "A-C" and no entry A.
C4_NoBaseWithoutAncestor ==
    [][WalkEnds =>
          ((attr_name \notin DOMAIN slots /\ ResolvableAncestors(class_name, attr_name) = {})
             => /\ HasOverrideRecord(processed', attr_name, class_name)
                /\ attr_name \notin DOMAIN processed')]_vars

\* the metadata of a slot record is that of the definition def
TakenFrom(rec, def) ==
    /\ rec["range"] = Get(def, "range")
    /\ Get(rec, "required") = Get(def, "required")
    /\ Get(rec, "multivalued") = Get(def, "multivalued")
    /\ Get(rec, "description")
         = (IF TruthyStr(Get(def, "description")) THEN def["description"] ELSE None)

\* C5: a base record made for A while the override of C is processed takes its
\* metadata from the nearest ancestor of C that holds A and does not override
\* it; an ancestor that overrides A never supplies it.
C5_BaseFromNearestNonOverriding ==
    [][(WalkEnds /\ attr_name \in DOMAIN processed') =>
          \E k \in 1..NumClasses :
             LET d == AncestorAt(class_name, k)
             IN  /\ d \in ResolvableAncestors(class_name, attr_name)
                 /\ \A j \in 1..(k - 1) :
                       AncestorAt(class_name, j)
                          \notin ResolvableAncestors(class_name, attr_name)
                 /\ TakenFrom(processed'[attr_name], classes[d].attributes[attr_name])]_vars

\* C6: for every class C and name A of its slot_usage, the field table holds the
\* override record "A-C" exactly when C's attributes hold a definition of A; a
\* dangling override is skipped and the later ones are still processed.
C6_OverrideIffAttribute ==
    SlotsDone =>
        \A c \in DOMAIN classes : \A a \in DOMAIN classes[c].slot_usage :
            HasOverrideRecord(processed, a, c) <=> HoldsAttr(c, a)

\* C7: an attribute A of C with an entry in C's slot_usage has slot id "A-C" in
\* the processed class, and a record of that identity is in the field table; an
\* attribute with no entry has slot id A.
C7_SlotIdMatchesRecord ==
    SlotsDone =>
        \A c \in DOMAIN classes : \A a \in DOMAIN classes[c].attributes :
            LET slotId == processed_classes[c]["attributes"][a]["slotId"]
            IN  IF OverridesAttr(c, a)
                THEN /\ slotId = OverrideId(a, c)
                     /\ OverrideId(a, c) \in DOMAIN processed
                     /\ processed[OverrideId(a, c)]["id"] = OverrideId(a, c)
                ELSE slotId = a

-----------------------------------------------------------------------------
(* Properties of the used-type filter and of expand_uri.                   *)

Assembled == pc = "assembled"

\* t is the range of a class attribute or of a global slot of the document
IsRange(t) ==
    \/ \E c \in DOMAIN classes : \E a \in DOMAIN classes[c].attributes :
          Get(classes[c].attributes[a], "range") = t
    \/ \E n \in DOMAIN slots : Get(slots[n], "range") = t

\* C8: a type is in the output types exactly when it is declared and is the
\* range of a class attribute or of a global slot.
C8_TypesAreTheUsedOnes ==
    Assembled => DOMAIN processed_types = {t \in DOMAIN types : IsRange(t)}

\* a type kept for a global slot alone, beside a declared type that is dropped
C8_Witness ==
    /\ Assembled
    /\ \E t \in DOMAIN processed_types :
          ~\E c \in DOMAIN classes : \E a \in DOMAIN classes[c].attributes :
              Get(classes[c].attributes[a], "range") = t
    /\ DOMAIN types \ DOMAIN processed_types # {}

\* the namespace of an identifier that holds a separator
NamespaceOf(uri) ==
    LET i == CHOOSE n \in 1..Len(uri) :
                uri[n] = ":" /\ \A m \in 1..(n - 1) : uri[m] # ":"
    IN  [k \in 1..(i - 1) |-> uri[k]]

Separated(uri) == \E n \in 1..Len(uri) : uri[n] = ":"

\* C9: within a run at most one network check is made per namespace; an entry
\* of validated_prefixes is never changed or removed, and no later identifier
\* of its namespace is checked, whatever the cached verdict.
C9_OneCheckPerNamespace ==
    /\ [](\A i, j \in 1..Len(checks) : i # j => checks[i].prefix # checks[j].prefix)
    /\ [][pc # "start" => \A p \in DOMAIN validated_prefixes :
             /\ p \in DOMAIN validated_prefixes'
             /\ validated_prefixes'[p] = validated_prefixes[p]
             /\ \A i \in (Len(checks) + 1)..Len(checks') : checks'[i].prefix # p]_vars

\* a namespace whose check failed is used again by a later identifier with
\* another code, which is expanded without a check
C9_Witness ==
    \E i, j \in 1..Len(calls) :
        /\ i < j
        /\ calls[i].checked # <<>>
        /\ Separated(calls[j].uri)
        /\ NamespaceOf(calls[j].uri) = calls[i].checked[1].prefix
        /\ calls[j].uri # calls[i].uri
        /\ calls[j].checked = <<>>
        /\ calls[j].result # <<>>
        /\ ~validated_prefixes[calls[i].checked[1].prefix]

\* C10: expand_uri returns base_url + code, the code being all that follows the
\* first separator, when the namespace has a prefix definition with a base URL;
\* otherwise it returns None, records the namespace in invalid_prefixes, makes
\* no network check and leaves validated_prefixes as it is.
C10_ExpansionOrInvalid ==
    [][(Len(calls') = Len(calls) + 1 /\ Separated(calls'[Len(calls')].uri)) =>
          LET call == calls'[Len(calls')]
              ns == NamespaceOf(call.uri)
              code == [k \in 1..(Len(call.uri) - Len(ns) - 1) |->
                         call.uri[Len(ns) + 1 + k]]
          IN  IF ns \in DOMAIN prefixes /\ "prefix_reference" \in DOMAIN prefixes[ns]
              THEN call.result = <<prefixes[ns]["prefix_reference"] \o code>>
              ELSE /\ call.result = <<>>
                   /\ ns \in invalid_prefixes'
                   /\ checks' = checks
                   /\ validated_prefixes' = validated_prefixes]_vars

\* an identifier with two separators has been expanded, and a namespace whose
\* definition lacks the base URL has been recorded as invalid
C10_Witness ==
    /\ \E i \in 1..Len(calls) :
          /\ calls[i].uri = <<"ex", ":", "1", ":", "2">>
          /\ calls[i].result = << <<"http://x/", "1", ":", "2">> >>
    /\ <<"nb">> \in invalid_prefixes
    /\ <<"nb">> \notin DOMAIN validated_prefixes

-----------------------------------------------------------------------------
(* Properties of whole calls of transform_schema.                          *)

\* the second call has returned
SecondDone == run = 2 /\ pc \in {"done", "failed"}

\* the identifiers expand_uri was given and what it returned for each
Expansions(log) == [i \in 1..Len(log) |-> <<log[i].uri, log[i].result>>]

\* C11: the network layer never influences the artifact or aborts the run: two
\* calls on the same input whose checks are answered differently both return
\* True and write the same artifact, expand_uri returns the same URL in both,
\* and the set of invalid prefixes is the same.
C11_NetworkNeverInfluencesOutput ==
    (run = 2 /\ pc \in {"done", "failed"}) =>
        /\ first.result = "True"
        /\ result = "True"
        /\ first.output_file.state = "written"
        /\ output_file.state = "written"
        /\ output_file.doc = first.output_file.doc
        /\ Expansions(calls) = Expansions(first.calls)
        /\ invalid_prefixes = first.invalid

\* the second call met another network: a check that succeeded in the first
\* call failed in the second, on a document with a URL in a class record
C11_Witness ==
    /\ SecondDone
    /\ rerun = "network"
    /\ \E p \in DOMAIN validated_prefixes :
          first.validated[p] /\ ~validated_prefixes[p]
    /\ \E c \in DOMAIN output_file.doc.classes :
          "class_url" \in DOMAIN output_file.doc.classes[c]

\* C12: a second call on the same input with the same network layer writes the
\* same artifact and ends with the same invalid_prefixes and validated_prefixes
\* as the first; both are empty when a call starts its work, so the second call
\* makes the same network checks as the first.
C12_SecondRunIsTheSame ==
    /\ []((SecondDone /\ rerun = "same") =>
            /\ result = first.result
            /\ output_file = first.output_file
            /\ invalid_prefixes = first.invalid
            /\ validated_prefixes = first.validated
            /\ checks = first.checks)
    /\ [][pc = "start" => (invalid_prefixes' = {} /\ DOMAIN validated_prefixes' = {})]_vars

\* the second call, on the same network, has repeated a failed check of the
\* first and recorded an invalid prefix again
C12_Witness ==
    /\ SecondDone
    /\ rerun = "same"
    /\ \E i \in 1..Len(checks) : ~validated_prefixes[checks[i].prefix]
    /\ invalid_prefixes # {}
    /\ first.invalid # {}

\* the file at output_path is as it was before the call
Untouched == output_file.state \in {"absent", "stale"}

\* C13: a failure in any stage makes the call return a failure result and leaves
\* no partial artifact: the output file is opened only after every
\* transformation stage has completed, and in a call that ends in failure the
\* output file has been neither created nor modified.
C13_NoPartialArtifact ==
    /\ (pc = "failed" => result = "False")
    /\ (StageAt(pc) \in {"load", "classes", "slots", "enums", "types", "open"}
          => Untouched)
    /\ (result = "False" => Untouched)

\* some class is its own ancestor
Cyclic == \E c \in DOMAIN classes : \E k \in 1..NumClasses : AncestorAt(c, k) = c

\* C14: when the hierarchy is not acyclic, every ancestor walk of
\* get_defining_class returns, and the call fails (with a CyclicHierarchyError)
\* instead of looping forever.
C14_CyclicWalkTerminates ==
    /\ [](Cyclic /\ pc = "gd_loop" => <>(pc = "gd_ret"))
    /\ [](Cyclic /\ pc = "start" => <>(result = "False"))

\* the dangling overrides the report names
DanglingNamed(rep) == IF "dangling" \in DOMAIN rep THEN rep["dangling"] ELSE {}

\* the report names every namespace that failed expansion and every namespace
\* whose check failed
ReportNamesPrefixes ==
    /\ \A i \in 1..Len(calls) :
          (Separated(calls[i].uri) /\ calls[i].result = <<>>)
             => NamespaceOf(calls[i].uri) \in report["invalid"]
    /\ \A i \in 1..Len(checks) :
          ~net[checks[i].url] => checks[i].prefix \in report["failed"]

\* C15: at the end of a successful call the report names every namespace that
\* failed expansion, every namespace whose check failed, and every dangling
\* override (class and attribute) that was skipped.
C15_ReportNamesEverySoftCondition ==
    (pc = "done" /\ result = "True") =>
        /\ ReportNamesPrefixes
        /\ \A c \in DOMAIN classes : \A a \in DOMAIN classes[c].slot_usage :
              ~HoldsAttr(c, a) => <<c, a>> \in DanglingNamed(report)

-----------------------------------------------------------------------------
(* The identifiers of a document in pipeline order, read off the document. *)

NonEmpty(u) == u # <<>>

RECURSIVE Joined(_)
Joined(seqs) == IF seqs = <<>> THEN <<>> ELSE Head(seqs) \o Joined(Tail(seqs))

\* the names of `order` that are keys of d, in that order
Present(order, d) == SelectSeq(order, LAMBDA n : n \in DOMAIN d)

ClassUris ==
    SelectSeq([i \in 1..Len(classOrder) |-> classes[classOrder[i]].class_uri], NonEmpty)

SlotUris ==
    LET names == Present(SlotOrder, slots)
    IN  SelectSeq([i \in 1..Len(names) |-> slots[names[i]].slot_uri], NonEmpty)

EnumUris ==
    LET names == Present(EnumOrder, enums)
        of(e) == LET keys == Present(PVOrder, enums[e].permissible_values)
                 IN  SelectSeq([i \in 1..Len(keys) |->
                                  enums[e].permissible_values[keys[i]]], NonEmpty)
                     \o enums[e].source_nodes \o enums[e].relationship_types
    IN  Joined([i \in 1..Len(names) |-> of(names[i])])

TypeUris ==
    LET names == SelectSeq(Present(TypeOrder, types), IsRange)
        of(t) == SelectSeq(<<types[t].uri>>, NonEmpty) \o types[t].exact_mappings
    IN  Joined([i \in 1..Len(names) |-> of(names[i])])

PipelineUris == ClassUris \o SlotUris \o EnumUris \o TypeUris

\* the identifiers of namespace ns, in pipeline order
OfNamespace(ns) ==
    SelectSeq(PipelineUris, LAMBDA u : Separated(u) /\ NamespaceOf(u) = ns)

\* all that follows the first separator
CodeOf(uri) ==
    [k \in 1..(Len(uri) - Len(NamespaceOf(uri)) - 1) |->
       uri[Len(NamespaceOf(uri)) + 1 + k]]

\* the namespaces of the document that have a prefix definition with a base URL
Expandable ==
    {NamespaceOf(PipelineUris[i]) : i \in {j \in 1..Len(PipelineUris) :
                                             Separated(PipelineUris[j])}}
    \cap {ns \in DOMAIN prefixes : "prefix_reference" \in DOMAIN prefixes[ns]}

\* C16: the single check of a namespace is made against the URL expanded from
\* the first identifier of that namespace in pipeline order (class URIs, global
\* slot URIs, enum permissible values and reachable_from entries, type URIs and
\* mappings); the cached verdict is the verdict for that URL, and no identifier
\* met later under the namespace is checked.
C16_CheckIsForFirstIdentifier ==
    Assembled =>
        /\ DOMAIN validated_prefixes = Expandable
        /\ \A ns \in Expandable :
              LET url == prefixes[ns]["prefix_reference"] \o CodeOf(OfNamespace(ns)[1])
              IN  /\ \A i \in 1..Len(checks) :
                        checks[i].prefix = ns => checks[i].url = url
                  /\ \E i \in 1..Len(checks) : checks[i].prefix = ns
                  /\ url \in DOMAIN net
                  /\ validated_prefixes[ns] = net[url]

\* the first identifier of namespace ex is the meaning of a permissible value;
\* a source node of the same namespace with another code follows it, and the
\* check, made for the meaning, failed
C16_Witness ==
    /\ Assembled
    /\ <<"ex">> \in DOMAIN validated_prefixes
    /\ ~validated_prefixes[<<"ex">>]
    /\ OfNamespace(<<"ex">>)[1] = <<"ex", ":", "1", ":", "2">>
    /\ \E i \in 2..Len(OfNamespace(<<"ex">>)) :
          OfNamespace(<<"ex">>)[i] = <<"ex", ":", "2">>
    /\ checks[1].url = <<"http://x/", "1", ":", "2">>

-----------------------------------------------------------------------------
(* Properties of the field table as a whole.                               *)

\* the (attribute, class) pairs of the overrides that are not dangling
OverridePairs ==
    {pr \in (UNION {DOMAIN classes[c].slot_usage : c \in DOMAIN classes})
               \X DOMAIN classes :
        OverridesAttr(pr[2], pr[1]) /\ HoldsAttr(pr[2], pr[1])}

\* the records of the table that are override records
OverrideRecords(table) == {k \in DOMAIN table : "overrides" \in DOMAIN table[k]}

\* C17: override records are distinct entities: after transform_slots the field
\* table holds every declared global slot under its own name with its own
\* range, and exactly one override record per non-dangling override pair, each
\* naming the attribute it overrides; no override record has replaced a global
\* slot, a base record or the record of another pair.
C17_OverrideRecordsAreDistinct ==
    SlotsDone =>
        /\ \A n \in DOMAIN slots :
              /\ n \in DOMAIN processed
              /\ "overrides" \notin DOMAIN processed[n]
              /\ processed[n]["id"] = n
              /\ processed[n]["range"] = Get(slots[n], "range")
        /\ Cardinality(OverrideRecords(processed)) = Cardinality(OverridePairs)
        /\ \A pr \in OverridePairs :
              \E k \in OverrideRecords(processed) :
                 /\ processed[k]["overrides"] = pr[1]
                 /\ TakenFrom(processed[k], classes[pr[2]].attributes[pr[1]])

\* transform_slots has returned for the second visiting order
BothOrdersDone == SlotsDone /\ run = 2 /\ rerun = "order"

\* the records of the table that are neither a declared global slot nor an
\* override record: the base records made by a walk
SynthesizedBases(table) ==
    {k \in DOMAIN table : k \notin DOMAIN slots /\ "overrides" \notin DOMAIN table[k]}

====
